---- MODULE Spec2Model ----
(***************************************************************************)
(* TGenerator<T> (Generator.h): a C++20 coroutine generator for Unreal     *)
(* Engine.  One coroutine state (TGeneratorPromise + frame) is shared by   *)
(* TGenerator handles (TSharedPtr) and observed by TWeakGeneratorHandle    *)
(* and TGeneratorIterator objects (TWeakPtr).  The "pair" consumer invokes *)
(* the generator function twice; its handles and iterators hold pointers   *)
(* to one of the two coroutine states.                                     *)
(*                                                                         *)
(* The build modelled is the one with exceptions enabled                   *)
(* (PLATFORM_EXCEPTIONS_DISABLED not defined).  Generator.h reads the      *)
(* promise's value pointer under two names, CurrentValuePtr (lines 108,    *)
(* 141, 178) and CurrentValue (lines 83, 85, 222); the promise has one     *)
(* such field and both names are modelled as that field.                   *)
(***************************************************************************)
EXTENDS Integers, Sequences, FiniteSets, TLC

\* ---- bounds ------------------------------------------------------------
MaxLen     == 2      \* longest generator body, in co_yield statements
MaxVal     == 2      \* yielded values are 1..MaxVal
NumHandles == 2      \* TGenerator objects the consumer may hold at once

Values    == 1..MaxVal
HandleIds == 1..NumHandles
PromiseIds == {1, 2}                 \* the pair consumer's two coroutine states
PairHandleIds == 1..(NumHandles + 1) \* and its TGenerator objects
ItIds == {1, 2}                      \* and its TGeneratorIterator objects
NullPtr   == 0

\* Resume()/begin()/operator++ calls in one behaviour: enough to run any
\* body to its end and call once more.
MaxPulls  == MaxLen + 2

\* Where the objects a body hands to co_yield live: in the coroutine frame
\* (locals and temporaries of the body, as README's loop variable i) or
\* outside it, outliving the coroutine.
Storages == {"frame", "external"}

RECURSIVE SeqsUpTo(_, _)
SeqsUpTo(S, n) ==
    IF n = 0 THEN {<<>>}
    ELSE LET shorter == SeqsUpTo(S, n - 1)
         IN  shorter \cup {Append(s, x) : s \in {t \in shorter : Len(t) = n - 1}, x \in S}

Bodies == SeqsUpTo(Values, MaxLen)

VARIABLES
    body,        \* the values the generator function co_yields, in order
    storage,     \* where the yielded objects live: "frame" or "external"
    ending,      \* how the body ends after them: "return" or "throw"
    P,           \* the TGeneratorPromise and its coroutine frame
    refCount,    \* shared reference count of the TSharedPtr control block
    destroyCalls,\* invocations of TGeneratorPromise::Destroy (the deleter)
    gen,         \* TGenerator objects: "none" | "empty" | "ref"
    weak,        \* the TWeakGeneratorHandle object: "none" | "null" | "ref"
    iter,        \* the TGeneratorIterator object: "none" | "null" | "ref"
    client,      \* consumer: "free" | "iter" (for loop) | "manual" (while loop)
    pc,          \* position of the loop consumers
    visited,     \* values the loop consumers passed to visit, in order
    ret,         \* outcome of the last consumer call
    pulls,       \* consumer calls of Resume()/begin()/operator++ so far
    raised,      \* failures thrown to the consumer so far
    fault,       \* "none", or the failed checkf / undefined behaviour hit
    \* the "pair" consumer invokes the generator function twice and works
    \* with both coroutine states; its objects hold pointers:
    heap,        \* the two TGeneratorPromise objects, by address 1, 2
    rc,          \* shared reference count of each one's control block
    hnd,         \* TGenerator objects: 0 (no object) or the promise pointed at
    org,         \* the invocation each TGenerator object was copied from
    its          \* TGeneratorIterator objects: 0 (null) or the promise pointed at

PairVars == <<heap, rc, hnd, org, its>>

vars == <<body, storage, ending, P, refCount, destroyCalls, gen, weak, iter, client,
          pc, visited, ret, pulls, raised, fault, heap, rc, hnd, org, its>>

\* ---- TGeneratorPromise ---------------------------------------------------

\* get_return_object / initial_suspend: the frame is created suspended
\* before the first statement of the body.
EagerPromise ==
    [CurrentValuePtr |-> NullPtr, Exception |-> FALSE, done |-> TRUE,
     pos |-> 0, steps |-> 1]
initial_suspend ==
    [CurrentValuePtr |-> NullPtr, Exception |-> FALSE, done |-> FALSE,
     pos |-> 0, steps |-> 0]

\* yield_value: store the address of the yielded object (the index of the
\* co_yield statement stands for the address), then suspend.
yield_value_nostore(p, addr) == [p EXCEPT !.pos = addr]
yield_value(p, addr) == [p EXCEPT !.CurrentValuePtr = addr, !.pos = addr]

\* unhandled_exception, followed by final_suspend.
unhandled_exception_lost(p) == [p EXCEPT !.done = TRUE]
unhandled_exception(p) == [p EXCEPT !.Exception = TRUE, !.done = TRUE]

\* return_void, followed by final_suspend.
return_void_reset(p) == [p EXCEPT !.done = TRUE, !.CurrentValuePtr = NullPtr]
return_void(p) == [p EXCEPT !.done = TRUE]

\* std::coroutine_handle::resume: run the body from its suspension point to
\* the next co_yield, to its end, or to the throw.
HandleResume(p) ==
    LET q == [p EXCEPT !.steps = p.steps + 1]
    IN  IF p.pos < Len(body) THEN yield_value(q, p.pos + 1)
        ELSE IF ending = "throw" THEN unhandled_exception(q)
        ELSE return_void(q)

IsDone(p) == p.done

\* TGeneratorPromise::Resume: the promise after the call; the call returns
\* PromiseResumeResult of it.
PromiseResume(p) == IF ~p.done THEN HandleResume(p) ELSE p
PromiseResumeResult(q) == ~q.done

\* ThrowIfException: does the call throw?
ThrowIfException_never(p) == FALSE
ThrowIfException(p) == p.Exception

\* TGenerator::HasValue
HasValue(p) == p.CurrentValuePtr # NullPtr

\* The object CurrentValuePtr points at is alive while the body is suspended
\* at the co_yield that stored it; once the body has resumed past its last
\* co_yield and finished, the frame's locals and temporaries are gone.
PointeeAlive(p) ==
    /\ p.CurrentValuePtr # NullPtr
    /\ (storage = "external" \/ ~p.done)

\* What reading *CurrentValuePtr can produce (the pointer is not null).
ReadValues(p) ==
    IF PointeeAlive(p) THEN {body[p.CurrentValuePtr]} ELSE Values

\* ---- TSharedPtr / TWeakPtr ------------------------------------------------

\* TWeakPtr::IsValid
IsValid(w) == w = "ref" /\ refCount > 0

\* TWeakPtr operator==: both pin to the same object (or both to none).
WeakPtrEq(a, b) == IsValid(a) = IsValid(b)

\* TGenerator::end(): a default-constructed iterator.
end == "null"

LiveStrong == {h \in HandleIds : gen[h] = "ref"}

\* what the consumer saw of its last call: the call, the handle it went
\* through (0: not a TGenerator call), how it ended and the value read
Outcome(op, out, val) == [op |-> op, h |-> 0, out |-> out, val |-> val]
OutcomeOn(h, op, out, val) == [op |-> op, h |-> h, out |-> out, val |-> val]

\* ---- initial state: the generator function has just been invoked ---------
Init ==
    /\ body \in Bodies
    /\ storage \in Storages
    /\ ending \in {"return", "throw"}
    /\ P = initial_suspend
    /\ refCount = 1
    /\ destroyCalls = 0
    /\ gen = [h \in HandleIds |-> IF h = 1 THEN "ref" ELSE "none"]
    /\ weak = "none"
    /\ iter = "none"
    /\ client \in {"free", "iter", "manual", "pair"}
    /\ client = "pair" => storage = "external"
    /\ pc = "start"
    /\ visited = <<>>
    /\ ret = Outcome("create", "void", 0)
    /\ pulls = 0
    /\ raised = 0
    /\ fault = "none"
    /\ heap = [a \in PromiseIds |-> initial_suspend]
    /\ rc = [a \in PromiseIds |-> 1]
    /\ hnd = [h \in PairHandleIds |-> IF h \in PromiseIds THEN h ELSE 0]
    /\ org = hnd
    /\ its = [i \in ItIds |-> 0]

Running == fault = "none"


\* ---- TGenerator / TWeakGeneratorHandle / TGeneratorIterator calls ---------
\* Each operator gives the promise after the call and what the caller sees.

\* TGenerator::Resume
Generator_Resume(p) ==
    LET q == PromiseResume(p)
    IN  [p   |-> q,
         out |-> IF ThrowIfException(q) THEN "throw"
                 ELSE IF PromiseResumeResult(q) THEN "true" ELSE "false"]

\* TGenerator::begin (CreateIterator forwards to it): prime if no value is
\* held, rethrow a stored exception, else return iterator(*this).
Generator_begin_always(p) ==
    LET q == PromiseResume(p)
    IN  [p   |-> q,
         out |-> IF ThrowIfException(q) THEN "throw" ELSE "iter",
         it  |-> "ref"]
Generator_begin(p) ==
    LET q == IF ~HasValue(p) THEN PromiseResume(p) ELSE p
    IN  [p   |-> q,
         out |-> IF ThrowIfException(q) THEN "throw" ELSE "iter",
         it  |-> "ref"]

\* TGeneratorIterator::operator++ on a valid iterator: pin, resume, and on
\* "no more values" clear the weak pointer, then rethrow.
Iterator_Increment_keep(p) ==
    LET q == PromiseResume(p)
    IN  [p   |-> q,
         it  |-> "ref",
         out |-> IF ~PromiseResumeResult(q) /\ ThrowIfException(q)
                 THEN "throw" ELSE "void"]
Iterator_Increment(p) ==
    LET q    == PromiseResume(p)
        more == PromiseResumeResult(q)
    IN  [p   |-> q,
         it  |-> IF more THEN "ref" ELSE "null",
         out |-> IF ~more /\ ThrowIfException(q) THEN "throw" ELSE "void"]

\* TSharedPtr copy / TWeakPtr::Pin on a valid pointer: one more shared owner.
AddSharedReference_none(c) == c
AddSharedReference(c) == c + 1

\* TSharedPtr destruction: one owner fewer; the deleter (Promise->Destroy())
\* runs when the count reaches zero.
ReleaseSharedReference(c) == c - 1
DeleterRuns(c) == c = 0

\* TWeakGeneratorHandle::Pin: the TGenerator it returns.
WeakHandle_Pin_stale(w) == IF w = "ref" THEN "ref" ELSE "empty"
WeakHandle_Pin(w) == IF IsValid(w) THEN "ref" ELSE "empty"

Bump(thrown) == IF thrown THEN raised + 1 ELSE raised

\* ---- consumer steps shared by all consumers -------------------------------

\* g.Resume() through handle h
DoResume(h) ==
    /\ gen[h] = "ref"
    /\ pulls < MaxPulls
    /\ LET r == Generator_Resume(P)
       IN  /\ P' = r.p
           /\ ret' = OutcomeOn(h, "Resume", r.out, 0)
           /\ raised' = Bump(r.out = "throw")
    /\ pulls' = pulls + 1
    /\ UNCHANGED PairVars
    /\ UNCHANGED <<body, storage, ending, refCount, destroyCalls, gen, weak, iter, fault>>

\* it = g.begin() through handle h
DoBegin(h) ==
    /\ gen[h] = "ref"
    /\ pulls < MaxPulls
    /\ LET r == Generator_begin(P)
       IN  /\ P' = r.p
           /\ ret' = OutcomeOn(h, "begin", r.out, 0)
           /\ raised' = Bump(r.out = "throw")
           /\ iter' = IF r.out = "throw" THEN iter ELSE r.it
    /\ pulls' = pulls + 1
    /\ UNCHANGED PairVars
    /\ UNCHANGED <<body, storage, ending, refCount, destroyCalls, gen, weak, fault>>

\* ++it
DoIncrement ==
    /\ iter # "none"
    /\ pulls < MaxPulls
    /\ pulls' = pulls + 1
    /\ IF ~IsValid(iter)
       THEN /\ fault' = "check: advance an invalid iterator"
            /\ ret' = Outcome("operator++", "fault", 0)
            /\ UNCHANGED <<P, iter, raised, refCount, destroyCalls>>
       ELSE LET pinned   == AddSharedReference(refCount)
                r        == Iterator_Increment(P)
                released == ReleaseSharedReference(pinned)
            IN  /\ P' = r.p
                /\ iter' = r.it
                /\ ret' = Outcome("operator++", r.out, 0)
                /\ raised' = Bump(r.out = "throw")
                /\ refCount' = released
                /\ destroyCalls' = IF DeleterRuns(released)
                                   THEN destroyCalls + 1 ELSE destroyCalls
                /\ fault' = fault
    /\ UNCHANGED PairVars
    /\ UNCHANGED <<body, storage, ending, gen, weak>>

\* *it, the value read being v
DoDeref(v) ==
    /\ iter # "none"
    /\ IF ~IsValid(iter)
       THEN /\ fault' = "check: dereference an invalid iterator"
            /\ ret' = Outcome("operator*", "fault", 0)
       ELSE IF ~HasValue(P)
       THEN \* *nullptr: the build may trap or hand back anything
            \/ /\ fault' = "null dereference"
               /\ ret' = Outcome("operator*", "fault", 0)
            \/ /\ fault' = fault
               /\ ret' = Outcome("operator*", "value", v)
       ELSE /\ v \in ReadValues(P)
            /\ fault' = fault
            /\ ret' = Outcome("operator*", "value", v)
    /\ UNCHANGED PairVars
    /\ UNCHANGED <<body, storage, ending, P, refCount, destroyCalls, gen, weak, iter,
                   pulls, raised>>

\* g.GetCurrentValue() through handle h, the value read being v
DoGetCurrentValue(h, v) ==
    /\ gen[h] # "none"
    /\ IF gen[h] = "empty" \/ ~HasValue(P)
       THEN /\ fault' = "check: access an empty generator"
            /\ ret' = OutcomeOn(h, "GetCurrentValue", "fault", 0)
       ELSE /\ v \in ReadValues(P)
            /\ fault' = fault
            /\ ret' = OutcomeOn(h, "GetCurrentValue", "value", v)
    /\ UNCHANGED PairVars
    /\ UNCHANGED <<body, storage, ending, P, refCount, destroyCalls, gen, weak, iter,
                   pulls, raised>>


\* ---- the free consumer: any call, in any order -----------------------------
Free == client = "free" /\ Running
LoopVars == <<client, pc, visited>>

Resume(h) == Free /\ DoResume(h) /\ UNCHANGED LoopVars

Begin(h) == Free /\ DoBegin(h) /\ UNCHANGED LoopVars

Increment == Free /\ DoIncrement /\ UNCHANGED LoopVars

Deref == Free /\ (\E v \in Values : DoDeref(v)) /\ UNCHANGED LoopVars

GetCurrentValue(h) ==
    Free /\ (\E v \in Values : DoGetCurrentValue(h, v)) /\ UNCHANGED LoopVars

\* TGenerator copy construction: h2 = h
Copy(h, h2) ==
    /\ Free
    /\ gen[h] # "none" /\ gen[h2] = "none"
    /\ gen' = [gen EXCEPT ![h2] = gen[h]]
    /\ refCount' = IF gen[h] = "ref" THEN AddSharedReference(refCount) ELSE refCount
    /\ ret' = Outcome("lifetime", "void", 0)
    /\ UNCHANGED PairVars
    /\ UNCHANGED <<body, storage, ending, P, destroyCalls, weak, iter, pulls, raised, fault>>
    /\ UNCHANGED LoopVars

\* TGenerator destruction
Drop(h) ==
    /\ Free
    /\ gen[h] # "none"
    /\ gen' = [gen EXCEPT ![h] = "none"]
    /\ IF gen[h] = "ref"
       THEN LET c == ReleaseSharedReference(refCount)
            IN  /\ refCount' = c
                /\ destroyCalls' = IF DeleterRuns(c) THEN destroyCalls + 1
                                   ELSE destroyCalls
       ELSE UNCHANGED <<refCount, destroyCalls>>
    /\ ret' = Outcome("lifetime", "void", 0)
    /\ UNCHANGED PairVars
    /\ UNCHANGED <<body, storage, ending, P, weak, iter, pulls, raised, fault>>
    /\ UNCHANGED LoopVars

\* TGenerator::GetWeakHandle
GetWeakHandle(h) ==
    /\ Free
    /\ gen[h] # "none" /\ weak = "none"
    /\ weak' = IF gen[h] = "ref" THEN "ref" ELSE "null"
    /\ ret' = Outcome("lifetime", "void", 0)
    /\ UNCHANGED PairVars
    /\ UNCHANGED <<body, storage, ending, P, refCount, destroyCalls, gen, iter, pulls,
                   raised, fault>>
    /\ UNCHANGED LoopVars

\* destruction of the weak handle / of the iterator
DropWeak ==
    /\ Free
    /\ weak # "none"
    /\ weak' = "none"
    /\ ret' = Outcome("lifetime", "void", 0)
    /\ UNCHANGED PairVars
    /\ UNCHANGED <<body, storage, ending, P, refCount, destroyCalls, gen, iter, pulls,
                   raised, fault>>
    /\ UNCHANGED LoopVars

DropIter ==
    /\ Free
    /\ iter # "none"
    /\ iter' = "none"
    /\ ret' = Outcome("lifetime", "void", 0)
    /\ UNCHANGED PairVars
    /\ UNCHANGED <<body, storage, ending, P, refCount, destroyCalls, gen, weak, pulls,
                   raised, fault>>
    /\ UNCHANGED LoopVars

\* h2 = w.Pin(), w being the weak handle or the iterator (which is one)
Pin(w, h2) ==
    /\ Free
    /\ w # "none" /\ gen[h2] = "none"
    /\ LET g == WeakHandle_Pin(w)
       IN  /\ gen' = [gen EXCEPT ![h2] = g]
           /\ refCount' = IF g = "ref" THEN AddSharedReference(refCount)
                          ELSE refCount
           /\ ret' = Outcome("Pin", g, 0)
    /\ UNCHANGED PairVars
    /\ UNCHANGED <<body, storage, ending, P, destroyCalls, weak, iter, pulls, raised, fault>>
    /\ UNCHANGED LoopVars

PinWeak(h2) == Pin(weak, h2)
PinIter(h2) == Pin(iter, h2)

\* ---- for (it = g.begin(); it != g.end(); ++it) visit(*it) ------------------
IterLoop == client = "iter" /\ Running

IterLoopBegin ==
    /\ IterLoop /\ pc = "start"
    /\ DoBegin(1)
    /\ pc' = IF ret'.out = "throw" THEN "threw" ELSE "test"
    /\ UNCHANGED <<client, visited>>

IterLoopTest ==
    /\ IterLoop /\ pc = "test"
    /\ pc' = IF ~WeakPtrEq(iter, end) THEN "visit" ELSE "exit"
    /\ UNCHANGED PairVars
    /\ UNCHANGED <<body, storage, ending, P, refCount, destroyCalls, gen, weak, iter,
                   client, visited, ret, pulls, raised, fault>>

IterLoopVisit ==
    /\ IterLoop /\ pc = "visit"
    /\ \E v \in Values :
          /\ DoDeref(v)
          /\ visited' = IF ret'.out = "value" THEN Append(visited, v) ELSE visited
    /\ pc' = IF ret'.out = "value" THEN "inc" ELSE pc
    /\ UNCHANGED client

IterLoopIncrement ==
    /\ IterLoop /\ pc = "inc"
    /\ DoIncrement
    /\ pc' = IF ret'.out = "throw" THEN "threw"
             ELSE IF ret'.out = "fault" THEN pc ELSE "test"
    /\ UNCHANGED <<client, visited>>

\* ---- while (g.Resume()) visit(g.GetCurrentValue()) -------------------------
ManualLoop == client = "manual" /\ Running

ManualLoopResume ==
    /\ ManualLoop /\ pc \in {"start", "resume"}
    /\ DoResume(1)
    /\ pc' = CASE ret'.out = "throw" -> "threw"
               [] ret'.out = "true"  -> "visit"
               [] OTHER              -> "exit"
    /\ UNCHANGED <<client, visited>>

ManualLoopVisit ==
    /\ ManualLoop /\ pc = "visit"
    /\ \E v \in Values :
          /\ DoGetCurrentValue(1, v)
          /\ visited' = IF ret'.out = "value" THEN Append(visited, v) ELSE visited
    /\ pc' = IF ret'.out = "value" THEN "resume" ELSE pc
    /\ UNCHANGED client

\* ---- the pair consumer: two invocations, handles holding pointers ---------
PairMode == client = "pair"
MainVars == <<body, storage, ending, P, refCount, destroyCalls, gen, weak, iter,
              client, pc, visited, ret, pulls, raised, fault>>

\* TSharedPtr copy construction: the copy points where the original does.
SharedPtrCopy_other(a) == IF a = 1 THEN 2 ELSE 1
SharedPtrCopy(a) == a

\* TWeakPtr::Pin().Get(): the object a weak pointer leads to, 0 if none or
\* if its last owner is gone.
Pinned(w) == IF w \in PromiseIds /\ rc[w] > 0 THEN w ELSE 0

\* TGeneratorIterator::operator== (TWeakPtr comparison) on pointers
IteratorEq_raw(a, b) == a = b
IteratorEq(a, b) == Pinned(a) = Pinned(b)

\* the iterators a comparison can take: end() and the consumer's objects
Operands == {0} \cup {its[i] : i \in ItIds}

\* g.Resume() through h (a throw leaves the same state behind)
PairResume(h) ==
    /\ PairMode
    /\ hnd[h] # 0
    /\ heap' = [heap EXCEPT ![hnd[h]] = Generator_Resume(@).p]
    /\ UNCHANGED <<rc, hnd, org, its>>
    /\ UNCHANGED MainVars

\* h2 = h
PairCopy(h, h2) ==
    /\ PairMode
    /\ hnd[h] # 0 /\ hnd[h2] = 0
    /\ LET a == SharedPtrCopy(hnd[h])
       IN  /\ hnd' = [hnd EXCEPT ![h2] = a]
           /\ rc' = [rc EXCEPT ![a] = AddSharedReference(@)]
    /\ org' = [org EXCEPT ![h2] = org[h]]
    /\ UNCHANGED <<heap, its>>
    /\ UNCHANGED MainVars

\* destruction of h; the deleter runs when the count reaches zero
PairDrop(h) ==
    /\ PairMode
    /\ hnd[h] # 0
    /\ hnd' = [hnd EXCEPT ![h] = 0]
    /\ org' = [org EXCEPT ![h] = 0]
    /\ rc' = [rc EXCEPT ![hnd[h]] = ReleaseSharedReference(@)]
    /\ UNCHANGED <<heap, its>>
    /\ UNCHANGED MainVars

\* its[i] = h.begin(); a throw leaves its[i] as it was
PairBegin(h, i) ==
    /\ PairMode
    /\ hnd[h] # 0
    /\ LET r == Generator_begin(heap[hnd[h]])
       IN  /\ heap' = [heap EXCEPT ![hnd[h]] = r.p]
           /\ its' = IF r.out = "throw" THEN its
                     ELSE [its EXCEPT ![i] = hnd[h]]
    /\ UNCHANGED <<rc, hnd, org>>
    /\ UNCHANGED MainVars

\* ++its[i], the iterator passing its validity check
PairIncrement(i) ==
    /\ PairMode
    /\ Pinned(its[i]) # 0
    /\ LET r == Iterator_Increment(heap[its[i]])
       IN  /\ heap' = [heap EXCEPT ![its[i]] = r.p]
           /\ its' = [its EXCEPT ![i] = IF r.it = "null" THEN 0 ELSE @]
    /\ UNCHANGED <<rc, hnd, org>>
    /\ UNCHANGED MainVars

Next ==
    \/ \E i \in ItIds : PairIncrement(i)
    \/ \E h \in PairHandleIds : PairResume(h)
    \/ \E h, h2 \in PairHandleIds : PairCopy(h, h2)
    \/ \E h \in PairHandleIds : PairDrop(h)
    \/ \E h \in PairHandleIds, i \in ItIds : PairBegin(h, i)
    \/ \E h \in HandleIds : Resume(h)
    \/ \E h \in HandleIds : Begin(h)
    \/ Increment
    \/ Deref
    \/ \E h \in HandleIds : GetCurrentValue(h)
    \/ \E h, h2 \in HandleIds : Copy(h, h2)
    \/ \E h \in HandleIds : Drop(h)
    \/ \E h \in HandleIds : GetWeakHandle(h)
    \/ DropWeak
    \/ DropIter
    \/ \E h2 \in HandleIds : PinWeak(h2)
    \/ \E h2 \in HandleIds : PinIter(h2)
    \/ IterLoopBegin
    \/ IterLoopTest
    \/ IterLoopVisit
    \/ IterLoopIncrement
    \/ ManualLoopResume
    \/ ManualLoopVisit

Spec == Init /\ [][Next]_vars

TypeOK ==
    /\ body \in Bodies
    /\ P.CurrentValuePtr \in 0..Len(body)
    /\ P.pos \in 0..Len(body)
    /\ refCount = Cardinality(LiveStrong)
    /\ pulls \in 0..MaxPulls


\* ---- properties -------------------------------------------------------------
K == Len(body)
IsPrefix(s, t) == Len(s) <= Len(t) /\ \A i \in 1..Len(s) : s[i] = t[i]

\* C1: for a body that yields K values and returns, the begin()/end() for
\* loop on a fresh generator visits exactly the K yielded values in yield
\* order, without fault; with K = 0 the loop body never runs.
C1_IterLoopVisitsAll ==
    (client = "iter" /\ ending = "return") =>
        /\ fault = "none"
        /\ IsPrefix(visited, body)
        /\ (pc = "exit" => visited = body)

\* C2: for a body that yields K values and returns, the i-th Resume() on a
\* fresh generator returns true for i <= K with GetCurrentValue() the i-th
\* yielded value, and the (K+1)-th returns false; the while loop visits
\* exactly the K yielded values in yield order.
C2_ManualLoopVisitsAll ==
    (client = "manual" /\ ending = "return") =>
        /\ fault = "none"
        /\ raised = 0
        /\ ret.op = "Resume" => ret.out = (IF pulls <= K THEN "true" ELSE "false")
        /\ ret.op = "GetCurrentValue" =>
              ret.out = "value" /\ pulls <= K /\ ret.val = body[pulls]
        /\ IsPrefix(visited, body)
        /\ pc = "visit" => Len(visited) = pulls - 1
        /\ pc = "resume" => Len(visited) = pulls
        /\ pc = "exit" => visited = body /\ pulls = K + 1

C2_Witness ==
    /\ client = "manual" /\ ending = "return" /\ pc = "exit"
    /\ visited = <<2, 1>>

\* C3: for a body that yields N values and then throws, the loop consumer
\* sees exactly the N values and then the failure at pull N + 1, raised by
\* Resume() in the while loop and by operator++ in the for loop (by begin()
\* when N = 0); no earlier pull raises.
C3_FailureAtPullNPlus1 ==
    (client \in {"iter", "manual"} /\ ending = "throw") =>
        /\ fault = "none"
        /\ IsPrefix(visited, body)
        /\ pulls <= K => raised = 0
        /\ pulls = K + 1 =>
              /\ raised = 1 /\ pc = "threw" /\ visited = body
              /\ ret.out = "throw"
              /\ ret.op = (IF client = "manual" THEN "Resume"
                           ELSE IF K = 0 THEN "begin" ELSE "operator++")
        /\ pulls <= K + 1
        /\ pc # "exit"

C3_Witness ==
    /\ client = "iter" /\ ending = "throw" /\ pc = "threw"
    /\ visited = <<1, 2>> /\ ret.op = "operator++" /\ raised = 1

\* C4: a failure raised by the body is thrown to the consumer exactly once;
\* later Resume()/begin() calls on the finished state do not throw it again.
C4_RaisedOnce == raised <= 1

\* C5: Destroy() runs exactly once, at the step at which the last strong
\* handle goes away, never while a strong handle is alive, whatever weak
\* handles and iterators exist; the body runs no step after Destroy().
C5_DestroyInv == destroyCalls = (IF LiveStrong = {} THEN 1 ELSE 0)
C5_DestroyStep ==
    /\ destroyCalls' # destroyCalls =>
          /\ destroyCalls' = destroyCalls + 1
          /\ LiveStrong # {} /\ LiveStrong' = {}
    /\ destroyCalls >= 1 => P' = P
C5_DestroyedExactlyOnce == [](C5_DestroyInv) /\ [][C5_DestroyStep]_vars

C5_Witness ==
    /\ destroyCalls = 1 /\ LiveStrong = {}
    /\ weak = "ref" /\ iter = "ref"
    /\ P.pos = 1 /\ K = 2 /\ ~P.done

\* C6: Pin() on a weak handle to the state returns a strong handle sharing
\* it (one more shared owner) while a strong handle is alive, and an empty
\* handle once the state is destroyed; no strong handle, and no iterator
\* that passed its validity check, refers to a destroyed state; weak handles
\* do not postpone destruction.
C6_PinStep(w) ==
    \A h2 \in HandleIds :
        (Pin(w, h2) /\ w = "ref") =>
            IF LiveStrong # {}
            THEN /\ gen'[h2] = "ref"
                 /\ refCount' = refCount + 1
                 /\ LiveStrong' = LiveStrong \cup {h2}
                 /\ destroyCalls' = 0
            ELSE /\ gen'[h2] = "empty"
                 /\ LiveStrong' = {}
                 /\ refCount' = 0
C6_Inv ==
    /\ \A h \in HandleIds : gen[h] = "ref" => destroyCalls = 0 /\ refCount > 0
    /\ IsValid(iter) \/ IsValid(weak) => destroyCalls = 0
    /\ (ret.op \in {"operator*", "operator++"} /\ ret.out # "fault") =>
          destroyCalls = 0
    /\ LiveStrong = {} => destroyCalls = 1 /\ ~IsValid(weak) /\ ~IsValid(iter)
C6_PinSafe == [](C6_Inv) /\ [][C6_PinStep(weak) /\ C6_PinStep(iter)]_vars

C6_Witness ==
    /\ ret = Outcome("Pin", "empty", 0)
    /\ weak = "ref" /\ destroyCalls = 1
    /\ \E h \in HandleIds : gen[h] = "empty"

\* C7: begin() on a fresh generator returns an iterator equal to end() when
\* the priming resume exhausts the body without a value, and otherwise an
\* iterator unequal to end() holding the first yielded value.
C7_BeginIterator ==
    (ret.op = "begin" /\ ret.out = "iter" /\ pulls = 1) =>
        IF P.done /\ ~HasValue(P)
        THEN WeakPtrEq(iter, end)
        ELSE ~WeakPtrEq(iter, end) /\ P.CurrentValuePtr = 1

\* C8: once the state is finished, every Resume() on any handle returns
\* false and leaves the promise (body steps, current value, done) unchanged.
C8_ResumeAfterDone ==
    [][\A h \in HandleIds :
          (P.done /\ gen[h] = "ref" /\ ret'.op = "Resume" /\ pulls' = pulls + 1) =>
              (ret'.out = "false" /\ P' = P)]_vars

\* C9: after a generator that yielded at least one value ran to normal
\* completion, and while a handle is held, IsDone() and HasValue() are true
\* and GetCurrentValue() returns the last yielded value; the iterator whose
\* advance detected the exhaustion equals end().
C9_KeepsLastValue ==
    (P.done /\ ~P.Exception /\ K >= 1 /\ LiveStrong # {}) =>
        /\ IsDone(P) /\ HasValue(P)
        /\ (ret.op = "GetCurrentValue" /\ gen[ret.h] = "ref") =>
              ret.out = "value" /\ ret.val = body[K]
        /\ (ret.op = "operator++" /\ ret.out = "void") => WeakPtrEq(iter, end)

\* C10: the generator function returns an unstarted state: until the first
\* Resume()/begin() call no body step has run, HasValue() and IsDone() are
\* false, also after copying the handle or taking and pinning a weak handle.
C10_CreatedUnstarted ==
    pulls = 0 => P.steps = 0 /\ ~HasValue(P) /\ ~IsDone(P)

C10_Witness ==
    /\ pulls = 0 /\ K = 0 /\ ending = "return"
    /\ weak = "ref" /\ Cardinality(LiveStrong) = 2
    /\ ret.op = "Pin"


\* C11 (as stated): begin() resumes the body exactly once when no value is
\* held and not at all when a value is held, in which case it leaves the
\* promise unchanged.
C11_BeginResumesOnce ==
    [][\A h \in HandleIds :
          DoBegin(h) =>
              IF HasValue(P) THEN P' = P ELSE P'.steps = P.steps + 1]_vars

\* C11 (amended): begin() calls the promise's Resume once when no value is
\* held, which runs the body exactly once unless the state is already
\* finished (then the body is not re-entered); when a value is held it
\* leaves the promise unchanged, so no value is skipped.
C11_BeginPrimesOnce ==
    [][\A h \in HandleIds :
          DoBegin(h) =>
              IF HasValue(P) \/ P.done THEN P' = P
              ELSE /\ P'.steps = P.steps + 1
                   /\ P'.pos \in {P.pos, P.pos + 1}
                   /\ (HasValue(P') => P'.CurrentValuePtr = P.pos + 1)]_vars

C11_Witness ==
    /\ ret.op = "begin" /\ ret.out = "iter"
    /\ pulls = 2 /\ P.steps = 1 /\ P.CurrentValuePtr = 1 /\ K = 2

\* C13: an iterator obtained from begin(), advanced or not, that is unequal
\* to end() refers to a state that holds a value.
C13_NonEndIteratorHasValue ==
    (iter # "none" /\ ~WeakPtrEq(iter, end)) => HasValue(P)

\* C14: when operator++ resumes and there are no more values, the iterator
\* is cleared before a stored failure is rethrown: when the failure leaves
\* operator++, and after a normal exhaustion, the iterator equals end(), and
\* advancing or dereferencing it again fails its check without resuming.
C14_Inv ==
    (ret.op = "operator++" /\ (ret.out = "throw" \/ (ret.out = "void" /\ P.done))) =>
        iter = "null" /\ WeakPtrEq(iter, end)
C14_Step ==
    /\ (DoIncrement /\ ~IsValid(iter)) =>
          fault' = "check: advance an invalid iterator" /\ P' = P
    /\ ((\E v \in Values : DoDeref(v)) /\ ~IsValid(iter)) =>
          fault' = "check: dereference an invalid iterator" /\ P' = P
C14_ClearedBeforeRethrow == [](C14_Inv) /\ [][C14_Step]_vars

C14_Witness ==
    /\ fault = "check: advance an invalid iterator"
    /\ iter = "null" /\ raised = 1 /\ P.Exception /\ P.steps = K + 1 /\ K = 1

\* C16: a body that throws finishes the state: after that resume IsDone()
\* is true, the promise's Resume returned false, the failure is stored on
\* the promise, and no later resume re-enters the body.
C16_Inv ==
    /\ P.Exception => P.done /\ ~PromiseResumeResult(P) /\ P.steps = K + 1
    /\ (ending = "throw" /\ P.steps = K + 1) => P.Exception /\ IsDone(P)
    /\ P.steps <= K + 1
C16_Step == P.Exception => P' = P
C16_FailureFinishes == [](C16_Inv) /\ [][C16_Step]_vars

C16_Witness ==
    /\ P.Exception /\ P.done /\ K = 1 /\ P.steps = 2
    /\ pulls = 3 /\ ret.op = "Resume"

\* C17: HasValue() is false until the first co_yield and, once true, stays
\* true after every operation, including the resume that completes the body
\* and the one in which it throws; the stored pointer is only replaced by a
\* later co_yield and never reset to null.
C17_Inv == HasValue(P) <=> P.pos >= 1
C17_Step ==
    /\ HasValue(P) => HasValue(P')
    /\ P'.CurrentValuePtr # P.CurrentValuePtr =>
          /\ P'.CurrentValuePtr = P.pos + 1
          /\ P'.pos = P.pos + 1
          /\ ~P'.done
C17_HasValueMonotone == [](C17_Inv) /\ [][C17_Step]_vars

C17_Witness ==
    /\ P.done /\ ~P.Exception /\ HasValue(P) /\ P.CurrentValuePtr = 2
    /\ ret.op = "operator++" /\ iter = "null"

\* C18: begin() on a generator that completed normally after at least one
\* co_yield resumes nothing and returns an iterator unequal to end() that
\* dereferences to the last yielded value; one advance makes it equal end().
C18_Done == P.done /\ ~P.Exception /\ K >= 1
C18_Inv ==
    (C18_Done /\ ret.op = "operator*" /\ IsValid(iter)) =>
        ret.out = "value" /\ ret.val = body[K]
C18_Step ==
    /\ (C18_Done /\ \E h \in HandleIds : DoBegin(h)) =>
          P' = P /\ iter' = "ref" /\ ~WeakPtrEq(iter', end)
    /\ (C18_Done /\ IsValid(iter) /\ DoIncrement) =>
          P' = P /\ WeakPtrEq(iter', end)
C18_BeginAfterExhaustion == [](C18_Inv) /\ [][C18_Step]_vars


\* C12: all TGenerator objects copied from the same origin point at one
\* coroutine state: any two live copies report the same HasValue(), the same
\* GetCurrentValue() object and the same IsDone(), and a Resume() through
\* one copy advances what every other copy sees, and nothing else.
C12_Copies(h) == {h2 \in PairHandleIds : hnd[h2] # 0 /\ org[h2] = org[h]}
C12_Inv ==
    \A h1 \in PairHandleIds : \A h2 \in C12_Copies(h1) :
        hnd[h1] # 0 =>
            /\ hnd[h1] = hnd[h2]
            /\ HasValue(heap[hnd[h1]]) = HasValue(heap[hnd[h2]])
            /\ heap[hnd[h1]].CurrentValuePtr = heap[hnd[h2]].CurrentValuePtr
            /\ IsDone(heap[hnd[h1]]) = IsDone(heap[hnd[h2]])
C12_Step ==
    \A h \in PairHandleIds :
        PairResume(h) =>
            \A h2 \in PairHandleIds :
                hnd[h2] # 0 =>
                    IF h2 \in C12_Copies(h)
                    THEN /\ heap'[hnd[h2]] = heap'[hnd[h]]
                         /\ heap'[hnd[h2]].steps =
                               heap[hnd[h2]].steps
                                 + (IF heap[hnd[h]].done THEN 0 ELSE 1)
                    ELSE heap'[hnd[h2]] = heap[hnd[h2]]
C12_CopiesAlias == [](C12_Inv) /\ [][C12_Step]_vars

C12_Witness ==
    /\ client = "pair"
    /\ \E h1, h2, h3 \in PairHandleIds :
          /\ h1 # h2
          /\ hnd[h1] = 1 /\ hnd[h2] = 1 /\ hnd[h3] = 2
    /\ heap[1].pos = 2 /\ heap[2].pos = 0

\* C15: two iterators compare equal iff both reference no live state (end(),
\* cleared by exhaustion, or the state has been destroyed) or both reference
\* the same live state; the states' values and positions play no role, and
\* end() equals every iterator that references no live state.
C15_NoLiveState(a) == a = 0 \/ rc[a] = 0
C15_IteratorEquality ==
    \A a, b \in Operands :
        IteratorEq(a, b) <=>
            \/ C15_NoLiveState(a) /\ C15_NoLiveState(b)
            \/ ~C15_NoLiveState(a) /\ ~C15_NoLiveState(b) /\ a = b

C15_Witness ==
    /\ client = "pair"
    /\ its[1] = 1 /\ its[2] = 2 /\ rc[1] > 0 /\ rc[2] = 0
    /\ heap[1] = heap[2] /\ heap[1].pos = 1
    /\ ~IteratorEq(its[1], its[2]) /\ IteratorEq(its[2], 0)

====
